---- MODULE Spec2Model ----
(***************************************************************************)
(* Model of the YewChat chat component (src/components/chat.rs): the       *)
(* component state (users, messages, chat_input, wss.tx), its constructor  *)
(* `create`, and its `update` handler for Msg::HandleMsg and               *)
(* Msg::SubmitMessage, together with the serde_json conversions the        *)
(* handler applies to the wire text.                                       *)
(*                                                                         *)
(* Strings.  A Rust String whose content matters to the program is either  *)
(* text that is not a JSON object (Raw) or the text of a JSON object       *)
(* (Obj, a function from member names to JSON values).  JSON values are    *)
(* null, a string (holding a text again) or an array of strings.           *)
(*                                                                         *)
(* Panics.  `unwrap()` on an Err/None panics.  A panic ends the component: *)
(* `update` never runs again, so every handler is guarded by ~panicked.    *)
(***************************************************************************)
EXTENDS Integers, Sequences, FiniteSets, TLC

VARIABLES users, messages, chat_input, tx, wire, panicked, rerender,
          username, trace, codec

vars == <<users, messages, chat_input, tx, wire, panicked, rerender,
          username, trace, codec>>

(* ---------------------------- bounds ----------------------------------- *)

\* number of update() calls (inbound deliveries and submits) explored
MaxEvents == 3
\* number of frames the channel behind wss.tx holds before try_send fails
ChanCap == 2

(* ------------------------ strings and JSON ----------------------------- *)

Raw(s) == <<"raw", s>>
Obj(f) == <<"obj", f>>
IsObj(t) == t[1] = "obj"

JNull == <<"null">>
JStr(t) == <<"str", t>>
JArr(ts) == <<"arr", ts>>

\* Option<T>
None == <<>>
Some(x) == <<x>>

\* Result<T, E>
Ok(x) == <<"Ok", x>>
Err == <<"Err">>
IsOk(r) == r[1] = "Ok"

(* ------------------------- the wire codec ------------------------------ *)

\* #[serde(rename_all = "lowercase")] enum MsgTypes
MsgTypes == {"Users", "Register", "Message"}

MsgTypeToken(mt) ==
    CASE mt = "Users" -> "users"
      [] mt = "Register" -> "register"
      [] mt = "Message" -> "message"

\* Deserialize for MsgTypes: a JSON string holding one of the three tokens
FromJsonMsgTypes(v) ==
    IF v[1] = "str" /\ v[2][1] = "raw"
       /\ \E mt \in MsgTypes : MsgTypeToken(mt) = v[2][2]
    THEN Ok(CHOOSE mt \in MsgTypes : MsgTypeToken(mt) = v[2][2])
    ELSE Err

\* Deserialize for Option<Vec<String>>: null is None, an array is Some
FromJsonOptVec(v) ==
    CASE v[1] = "null" -> Ok(None)
      [] v[1] = "arr" -> Ok(Some(v[2]))
      [] OTHER -> Err

\* Deserialize for Option<String>: null is None, a string is Some
FromJsonOptString(v) ==
    CASE v[1] = "null" -> Ok(None)
      [] v[1] = "str" -> Ok(Some(v[2]))
      [] OTHER -> Err

\* an Option field that is missing from the object deserializes as None
Member(f, k) == IF k \in DOMAIN f THEN f[k] ELSE JNull

\* serde_json::from_str::<WebSocketMessage>, #[serde(rename_all = "camelCase")]
FromStrWebSocketMessage(s) ==
    IF ~IsObj(s) THEN Err
    ELSE LET f == s[2] IN
      IF "messageType" \notin DOMAIN f THEN Err
      ELSE LET mt == FromJsonMsgTypes(f["messageType"])
               da == FromJsonOptVec(Member(f, "dataArray"))
               d == FromJsonOptString(Member(f, "data"))
           IN IF IsOk(mt) /\ IsOk(da) /\ IsOk(d)
              THEN Ok([message_type |-> mt[2], data_array |-> da[2],
                       data |-> d[2]])
              ELSE Err

\* an absent list written as an empty array
ToJsonOptVec_EmptyForNone(o) == IF o = None THEN JArr(<<>>) ELSE JArr(o[1])

\* Serialize for Option<Vec<String>>: None is null, Some is an array
ToJsonOptVec(o) == IF o = None THEN JNull ELSE JArr(o[1])

\* Serialize for Option<String>: None is null, Some is a string
ToJsonOptString(o) == IF o = None THEN JNull ELSE JStr(o[1])

\* serde_json::to_string(&WebSocketMessage)
ToStringWebSocketMessage(m) ==
    Obj([messageType |-> JStr(Raw(MsgTypeToken(m.message_type))),
         dataArray |-> ToJsonOptVec(m.data_array),
         data |-> ToJsonOptString(m.data)])

\* serde_json::from_str::<MessageData>: both members are required strings
FromStrMessageData(s) ==
    IF ~IsObj(s) THEN Err
    ELSE LET f == s[2] IN
      IF "from" \in DOMAIN f /\ "message" \in DOMAIN f
         /\ f["from"][1] = "str" /\ f["message"][1] = "str"
      THEN Ok([from |-> f["from"][2], message |-> f["message"][2]])
      ELSE Err

(* --------------------------- input sets -------------------------------- *)

Usernames == {Raw("alice"), Raw("dave")}

\* the text of the JSON object {from, message}
MessageDataText(from, message) ==
    Obj([from |-> JStr(Raw(from)), message |-> JStr(Raw(message))])

\* what the user may have typed into the input element
InputTexts == {Raw("hi"), Raw("hello.gif"), MessageDataText("bob", "hi")}

\* strings the event bus may deliver
InboundTexts ==
    {Raw("garbage"),
     Obj([messageType |-> JStr(Raw("ping")), dataArray |-> JNull,
          data |-> JNull]),
     Obj([messageType |-> JStr(Raw("users")),
          dataArray |-> JArr(<<Raw("alice"), Raw("bob")>>), data |-> JNull]),
     Obj([messageType |-> JStr(Raw("users")),
          dataArray |-> JArr(<<Raw("carol")>>), data |-> JNull]),
     Obj([messageType |-> JStr(Raw("users")),
          dataArray |-> JArr(<<Raw("bob"), Raw("bob")>>), data |-> JNull]),
     Obj([messageType |-> JStr(Raw("users")), dataArray |-> JNull,
          data |-> JStr(Raw("alice"))]),
     Obj([messageType |-> JStr(Raw("register")), dataArray |-> JNull,
          data |-> JStr(Raw("alice"))]),
     Obj([messageType |-> JStr(Raw("message")), dataArray |-> JNull,
          data |-> JNull]),
     Obj([messageType |-> JStr(Raw("message")), dataArray |-> JNull,
          data |-> JStr(Raw("hello.gif"))]),
     Obj([messageType |-> JStr(Raw("message")),
          data |-> JStr(Obj([from |-> JStr(Raw("alice"))]))]),
     Obj([messageType |-> JStr(Raw("message")), dataArray |-> JNull,
          data |-> JStr(MessageDataText("alice", "hello.gif"))]),
     Obj([messageType |-> JStr(Raw("message")), dataArray |-> JNull,
          data |-> JStr(MessageDataText("bob", "hi"))]),
     Obj([messageType |-> JStr(Raw("message")), dataArray |-> JNull,
          data |-> JStr(MessageDataText("carol", "hi"))])}

(* --------------------------- the component ----------------------------- *)

\* format!("https://avatars.dicebear.com/api/adventurer-neutral/{}.svg", u)
Avatar(u) == <<"https://avatars.dicebear.com/api/adventurer-neutral/", u, ".svg">>

UserProfile(u) == [name |-> u, avatar |-> Avatar(u)]

\* frames accepted by the channel so far, in order
Outbound == wire \o tx

\* wss.tx.try_send(s): Err when the channel is full
TrySendOk == Len(tx) < ChanCap

\* a Register frame that carries the name in the wrong field
RegisterMessage_NameInArray(name) ==
    [message_type |-> "Register", data |-> None, data_array |-> Some(<<name>>)]

\* the Register frame built by create
RegisterMessage(name) ==
    [message_type |-> "Register", data |-> Some(name), data_array |-> None]

\* Chat::create: a fresh channel, the Register frame sent, empty state
Init ==
    /\ username \in Usernames
    /\ users = <<>>
    /\ messages = <<>>
    /\ chat_input = FALSE
    /\ tx = <<ToStringWebSocketMessage(RegisterMessage(username))>>
    /\ wire = <<>>
    /\ panicked = FALSE
    /\ rerender = FALSE
    /\ trace = <<>>
    /\ codec = [frame |-> None, text |-> None, back |-> None]

\* msg.data_array.unwrap_or_default()
UsersFromMessage(msg) ==
    IF msg.data_array = None THEN <<>> ELSE msg.data_array[1]

RECURSIVE FirstOccurrences(_)
\* a sequence without the later repetitions of its elements
FirstOccurrences(q) ==
    IF q = <<>> THEN <<>>
    ELSE LET front == FirstOccurrences(SubSeq(q, 1, Len(q) - 1))
             x == q[Len(q)]
         IN IF \E i \in 1..Len(front) : front[i] = x THEN front
            ELSE Append(front, x)

\* a roster that is de-duplicated by name on ingest
UsersArm_Dedup(msg) ==
    [i \in 1..Len(FirstOccurrences(UsersFromMessage(msg))) |->
        UserProfile(FirstOccurrences(UsersFromMessage(msg))[i])]

\* a roster that is patched instead of replaced
UsersArm_Merge(msg) ==
    users \o [i \in 1..Len(UsersFromMessage(msg)) |-> UserProfile(UsersFromMessage(msg)[i])]

\* the MsgTypes::Users arm: the value assigned to self.users
UsersArm(msg) ==
    [i \in 1..Len(UsersFromMessage(msg)) |-> UserProfile(UsersFromMessage(msg)[i])]

\* a history that keeps only the newest message
MessagesPush_Replace(message_data) == <<message_data>>

\* a history that drops a message it already holds
MessagesPush_Dedup(message_data) ==
    IF \E i \in 1..Len(messages) : messages[i] = message_data
    THEN messages
    ELSE Append(messages, message_data)

\* the MsgTypes::Message arm: self.messages.push(message_data)
MessagesPush(message_data) == Append(messages, message_data)

\* the frame of create pasted into submit: the wrong tag
SubmitMessageFrame_RegisterTag(value) ==
    [message_type |-> "Register", data |-> Some(value), data_array |-> None]

\* the frame built by the Msg::SubmitMessage arm from input.value()
SubmitMessageFrame(value) ==
    [message_type |-> "Message", data |-> Some(value), data_array |-> None]

\* an update whose catch-all arm asks for a re-render
UpdateReturn_OtherTrue(arm) ==
    CASE arm = "Users" -> TRUE
      [] arm = "Message" -> TRUE
      [] arm = "SubmitMessage" -> FALSE
      [] OTHER -> TRUE

\* an update whose submit arm asks for a re-render
UpdateReturn_SubmitTrue(arm) ==
    CASE arm = "Users" -> TRUE
      [] arm = "Message" -> TRUE
      [] arm = "SubmitMessage" -> TRUE
      [] OTHER -> FALSE

\* the bool each arm of update returns: whether the view is rendered again
UpdateReturn(arm) ==
    CASE arm = "Users" -> TRUE
      [] arm = "Message" -> TRUE
      [] arm = "SubmitMessage" -> FALSE
      [] OTHER -> FALSE

\* an unwrap() on Err or None: the handler does not return
Panic ==
    /\ panicked' = TRUE
    /\ UNCHANGED <<users, messages, rerender>>

\* Chat::update, Msg::HandleMsg(s)
HandleMsg(s) ==
    /\ ~panicked
    /\ Len(trace) < MaxEvents
    /\ trace' = Append(trace, [kind |-> "HandleMsg", arg |-> s,
                               sent |-> None, ok |-> FALSE])
    /\ UNCHANGED <<chat_input, tx, wire, username, codec>>
    /\ LET r == FromStrWebSocketMessage(s) IN
       IF ~IsOk(r) THEN Panic
       ELSE LET msg == r[2] IN
         CASE msg.message_type = "Users" ->
                /\ users' = UsersArm(msg)
                /\ rerender' = UpdateReturn("Users")
                /\ UNCHANGED <<messages, panicked>>
           [] msg.message_type = "Message" ->
                IF msg.data = None THEN Panic
                ELSE LET md == FromStrMessageData(msg.data[1]) IN
                  IF ~IsOk(md) THEN Panic
                  ELSE /\ messages' = MessagesPush(md[2])
                       /\ rerender' = UpdateReturn("Message")
                       /\ UNCHANGED <<users, panicked>>
           [] OTHER ->
                /\ rerender' = UpdateReturn(msg.message_type)
                /\ UNCHANGED <<users, messages, panicked>>

\* a submit that unwraps the result of try_send
SubmitMessage_UnwrapSend(value) ==
    /\ ~panicked
    /\ Len(trace) < MaxEvents
    /\ IF chat_input
       THEN LET s == ToStringWebSocketMessage(SubmitMessageFrame(value)) IN
            /\ tx' = IF TrySendOk THEN Append(tx, s) ELSE tx
            /\ trace' = Append(trace, [kind |-> "SubmitMessage", arg |-> value,
                                       sent |-> Some(s), ok |-> TrySendOk])
       ELSE /\ UNCHANGED tx
            /\ trace' = Append(trace, [kind |-> "SubmitMessage", arg |-> value,
                                       sent |-> None, ok |-> FALSE])
    /\ rerender' = UpdateReturn("SubmitMessage")
    /\ panicked' = (chat_input /\ ~TrySendOk)
    /\ UNCHANGED <<users, messages, chat_input, wire, username, codec>>

\* a submit that shows the line locally before the server echoes it
SubmitMessage_Optimistic(value) ==
    /\ ~panicked
    /\ Len(trace) < MaxEvents
    /\ IF chat_input
       THEN LET s == ToStringWebSocketMessage(SubmitMessageFrame(value)) IN
            /\ tx' = IF TrySendOk THEN Append(tx, s) ELSE tx
            /\ trace' = Append(trace, [kind |-> "SubmitMessage", arg |-> value,
                                       sent |-> Some(s), ok |-> TrySendOk])
       ELSE /\ UNCHANGED tx
            /\ trace' = Append(trace, [kind |-> "SubmitMessage", arg |-> value,
                                       sent |-> None, ok |-> FALSE])
    /\ rerender' = UpdateReturn("SubmitMessage")
    /\ messages' = Append(messages, [from |-> username, message |-> value])
    /\ UNCHANGED <<users, chat_input, wire, panicked, username, codec>>

\* a submit that sends only while the roster is non-empty
SubmitMessage_Gated(value) ==
    /\ ~panicked
    /\ Len(trace) < MaxEvents
    /\ IF chat_input
       THEN LET s == ToStringWebSocketMessage(SubmitMessageFrame(value)) IN
            /\ tx' = IF TrySendOk /\ users # <<>> THEN Append(tx, s) ELSE tx
            /\ trace' = Append(trace, [kind |-> "SubmitMessage", arg |-> value,
                                       sent |-> Some(s), ok |-> TrySendOk])
       ELSE /\ UNCHANGED tx
            /\ trace' = Append(trace, [kind |-> "SubmitMessage", arg |-> value,
                                       sent |-> None, ok |-> FALSE])
    /\ rerender' = UpdateReturn("SubmitMessage")
    /\ UNCHANGED <<users, messages, chat_input, wire, panicked, username, codec>>

\* Chat::update, Msg::SubmitMessage; value is input.value().  The trace entry
\* records the string handed to try_send and whether the channel took it.
SubmitMessage(value) ==
    /\ ~panicked
    /\ Len(trace) < MaxEvents
    /\ IF chat_input
       THEN LET s == ToStringWebSocketMessage(SubmitMessageFrame(value)) IN
            /\ tx' = IF TrySendOk THEN Append(tx, s) ELSE tx
            /\ trace' = Append(trace, [kind |-> "SubmitMessage", arg |-> value,
                                       sent |-> Some(s), ok |-> TrySendOk])
       ELSE /\ UNCHANGED tx
            /\ trace' = Append(trace, [kind |-> "SubmitMessage", arg |-> value,
                                       sent |-> None, ok |-> FALSE])
    /\ rerender' = UpdateReturn("SubmitMessage")
    /\ UNCHANGED <<users, messages, chat_input, wire, panicked, username, codec>>

\* Chat::view: the first render binds chat_input to the input element
Rendered ==
    /\ ~chat_input
    /\ chat_input' = TRUE
    /\ UNCHANGED <<users, messages, tx, wire, panicked, rerender, username,
                   trace, codec>>

\* the transport task takes the oldest frame off the channel
Drain ==
    /\ tx # <<>>
    /\ wire' = Append(wire, Head(tx))
    /\ tx' = Tail(tx)
    /\ UNCHANGED <<users, messages, chat_input, panicked, rerender, username,
                   trace, codec>>

\* the submit button exists only once the view is rendered
Next ==
    \/ \E s \in InboundTexts : HandleMsg(s)
    \/ \E value \in InputTexts : chat_input /\ SubmitMessage(value)
    \/ Rendered
    \/ Drain

Spec == Init /\ [][Next]_vars
(* ------------------- the wire codec on its own ------------------------- *)

\* the values of WebSocketMessage.data_array and WebSocketMessage.data
DataArrays ==
    {None, Some(<<>>), Some(<<Raw("alice")>>), Some(<<Raw("alice"), Raw("bob")>>)}
Datas ==
    {None, Some(Raw("alice")), Some(Raw("hello.gif")),
     Some(MessageDataText("alice", "hi"))}

\* every WebSocketMessage the struct can hold over these payloads
Frames == [message_type : MsgTypes, data_array : DataArrays, data : Datas]

\* the component as create leaves it, and a frame handed to the codec
CodecInit ==
    /\ username \in Usernames
    /\ users = <<>>
    /\ messages = <<>>
    /\ chat_input = FALSE
    /\ tx = <<ToStringWebSocketMessage(RegisterMessage(username))>>
    /\ wire = <<>>
    /\ panicked = FALSE
    /\ rerender = FALSE
    /\ trace = <<>>
    /\ codec \in {[frame |-> Some(f), text |-> None, back |-> None] : f \in Frames}

\* serde_json::to_string(&message)
Encode ==
    /\ codec.frame # None /\ codec.text = None
    /\ codec' = [codec EXCEPT !.text = Some(ToStringWebSocketMessage(codec.frame[1]))]
    /\ UNCHANGED <<users, messages, chat_input, tx, wire, panicked, rerender,
                   username, trace>>

\* serde_json::from_str::<WebSocketMessage>(&s)
Decode ==
    /\ codec.text # None /\ codec.back = None
    /\ codec' = [codec EXCEPT !.back = Some(FromStrWebSocketMessage(codec.text[1]))]
    /\ UNCHANGED <<users, messages, chat_input, tx, wire, panicked, rerender,
                   username, trace>>

CodecNext == Encode \/ Decode

CodecSpec == CodecInit /\ [][CodecNext]_vars

(* ------------------------------ the view ------------------------------- *)

\* a fallback avatar from another sprite collection
FallbackAvatar_OtherStyle(from) ==
    <<"https://avatars.dicebear.com/api/adventurer/", from, ".svg">>

\* format!("https://avatars.dicebear.com/api/adventurer-neutral/{}.svg", m.from)
FallbackAvatar(from) ==
    <<"https://avatars.dicebear.com/api/adventurer-neutral/", from, ".svg">>

\* a fallback profile built for the viewer instead of the sender
Binding_CurrentUser(m) ==
    [name |-> username, avatar |-> FallbackAvatar(username)]

\* the profile the view builds for the sender of a message before the lookup
Binding(m) == [name |-> m.from, avatar |-> FallbackAvatar(m.from)]

\* self.users.iter().find(|u| u.name == m.from): the first entry of that name
FindUser(m) ==
    IF \E i \in 1..Len(users) : users[i].name = m.from
    THEN Some(users[CHOOSE i \in 1..Len(users) :
                      /\ users[i].name = m.from
                      /\ \A j \in 1..(i - 1) : users[j].name # m.from])
    ELSE None

\* the profile the view shows for a message: find(..).unwrap_or(&binding)
ViewUser(m) == IF FindUser(m) = None THEN Binding(m) ELSE FindUser(m)[1]

(* ------------------------ vocabulary of the claims --------------------- *)

Last == trace[Len(trace)]

\* the step just taken was an update() call of the given kind
HandleMsgStep == Len(trace') = Len(trace) + 1 /\ trace'[Len(trace')].kind = "HandleMsg"
SubmitStep == Len(trace') = Len(trace) + 1 /\ trace'[Len(trace')].kind = "SubmitMessage"

\* the member of a JSON object text, or null
TextMember(s, k) == IF IsObj(s) /\ k \in DOMAIN s[2] THEN s[2][k] ELSE JNull

HasTag(s, token) == TextMember(s, "messageType") = JStr(Raw(token))

\* not a frame envelope: no JSON object, or a messageType outside the three tokens
MalformedEnvelope(s) ==
    ~IsObj(s) \/ ~(HasTag(s, "users") \/ HasTag(s, "register") \/ HasTag(s, "message"))

\* a "message" frame whose data is null or is not the text of {from, message}
BadMessagePayload(s) ==
    /\ HasTag(s, "message")
    /\ \/ TextMember(s, "data") = JNull
       \/ /\ TextMember(s, "data")[1] = "str"
          /\ LET d == TextMember(s, "data")[2] IN
             ~(IsObj(d) /\ {"from", "message"} \subseteq DOMAIN d[2])

\* a "message" frame whose data is the text of {from, message}
GoodMessage(s) ==
    /\ HasTag(s, "message")
    /\ TextMember(s, "data")[1] = "str"
    /\ LET d == TextMember(s, "data")[2] IN
       IsObj(d) /\ {"from", "message"} \subseteq DOMAIN d[2]

\* the ChatMessage a good "message" frame carries
ChatMessageOf(s) ==
    LET d == TextMember(s, "data")[2][2] IN
    [from |-> d["from"][2], message |-> d["message"][2]]

\* a "users" frame, and the names it lists
UsersFrame(s) == HasTag(s, "users")
NamesOf(s) ==
    IF TextMember(s, "dataArray")[1] = "arr" THEN TextMember(s, "dataArray")[2]
    ELSE <<>>

RosterNames == [i \in 1..Len(users) |-> users[i].name]

Delivered(i) == trace[i].kind = "HandleMsg"

(* -------------------------------- C1 ----------------------------------- *)

\* C1: feeding the inbound handler a string that is not a decodable frame
\* envelope does not crash the controller, which goes on to process later
\* frames: the controller is alive after every such delivery.
C1_MalformedInputResilience ==
    (trace # <<>> /\ Delivered(Len(trace)) /\ MalformedEnvelope(Last.arg))
        => ~panicked

(* -------------------------------- C2 ----------------------------------- *)

\* C2: an inbound "message" frame whose data is null or does not decode to
\* {from, message} is dropped without crashing the controller: the controller
\* is alive after every such delivery.
C2_InnerDecodeFailureNonFatal ==
    (trace # <<>> /\ Delivered(Len(trace)) /\ BadMessagePayload(Last.arg))
        => ~panicked

(* -------------------------------- C3 ----------------------------------- *)

\* C3: right after an inbound Users frame the roster's names are exactly the
\* frame's names, in frame order, whatever the roster held before.
C3_RosterReplace ==
    (trace # <<>> /\ Delivered(Len(trace)) /\ UsersFrame(Last.arg))
        => RosterNames = NamesOf(Last.arg)

Range(q) == {q[i] : i \in DOMAIN q}

\* two consecutive Users frames with disjoint, non-empty name sets
C3_Witness ==
    /\ Len(trace) >= 2
    /\ Delivered(Len(trace)) /\ UsersFrame(Last.arg)
    /\ Delivered(Len(trace) - 1) /\ UsersFrame(trace[Len(trace) - 1].arg)
    /\ NamesOf(Last.arg) # <<>>
    /\ NamesOf(trace[Len(trace) - 1].arg) # <<>>
    /\ Range(NamesOf(Last.arg)) \cap Range(NamesOf(trace[Len(trace) - 1].arg)) = {}
    /\ RosterNames = NamesOf(Last.arg)

(* -------------------------------- C4 ----------------------------------- *)

RECURSIVE ArrivedMessages(_)
\* the ChatMessages of the good "message" frames of a trace, in arrival order
ArrivedMessages(t) ==
    IF t = <<>> THEN <<>>
    ELSE LET e == t[Len(t)]
             before == ArrivedMessages(SubSeq(t, 1, Len(t) - 1))
         IN IF e.kind = "HandleMsg" /\ GoodMessage(e.arg)
            THEN Append(before, ChatMessageOf(e.arg))
            ELSE before

\* C4: history is the sequence of the successfully decoded inbound Message
\* frames in arrival order: nothing reordered, merged or removed, however
\* Users frames and submits are interleaved.
C4_HistoryAppendOnly == messages = ArrivedMessages(trace)

\* the same frame twice with a Users frame between: two equal entries
C4_Witness ==
    /\ Len(trace) = 3
    /\ Delivered(1) /\ GoodMessage(trace[1].arg)
    /\ Delivered(2) /\ UsersFrame(trace[2].arg)
    /\ Delivered(3) /\ trace[3].arg = trace[1].arg
    /\ Len(messages) = 2 /\ messages[1] = messages[2]

(* -------------------------------- C5 ----------------------------------- *)

\* a Users frame has been received
UsersSeen == \E i \in 1..Len(trace) : Delivered(i) /\ UsersFrame(trace[i].arg)

IsMessageFrameText(s) ==
    HasTag(s, "message") /\ TextMember(s, "dataArray") = JNull

\* C5 as stated: while no Users snapshot has been received, no outbound frame
\* other than the Register frame exists and history is empty of local lines.
C5_SendGating ==
    ~UsersSeen =>
        /\ \A i \in 1..Len(Outbound) : ~HasTag(Outbound[i], "message")
        /\ messages = ArrivedMessages(trace)

\* C5 amended: a submit before the first Users snapshot leaves history and
\* roster unchanged, but it is not gated: its Message frame goes outbound
\* whenever the channel takes it.
C5_SubmitBeforeUsersSendsButKeepsHistory ==
    [][(SubmitStep /\ ~UsersSeen) =>
          /\ messages' = messages
          /\ users' = users
          /\ LET e == trace'[Len(trace')] IN
             IF e.ok
             THEN /\ Len(Outbound') = Len(Outbound) + 1
                  /\ IsMessageFrameText(Outbound'[Len(Outbound')])
             ELSE Outbound' = Outbound]_vars

\* a submit before any Users frame whose frame is outbound
C5_Witness ==
    /\ trace # <<>> /\ Last.kind = "SubmitMessage" /\ Last.ok
    /\ ~UsersSeen
    /\ Len(Outbound) = 2 /\ IsMessageFrameText(Outbound[2])
    /\ messages = <<>>

(* -------------------------------- C6 ----------------------------------- *)

IsOkSubmit(e) == e.kind = "SubmitMessage" /\ e.ok

\* the submits whose frame the channel took, in order
OkSubmits == SelectSeq(trace, IsOkSubmit)

EchoDelivered ==
    /\ Len(trace) >= 2
    /\ IsOkSubmit(trace[Len(trace) - 1])
    /\ Delivered(Len(trace))
    /\ Last.arg = trace[Len(trace) - 1].sent[1]

\* C7: when the exact frame a submit emitted is delivered back, it is accepted
\* and history ends with the ChatMessage {sender: currentUser, body: text}.
C7_EchoRoundTrip ==
    EchoDelivered =>
        /\ ~panicked
        /\ messages # <<>>
        /\ messages[Len(messages)] =
               [from |-> username, message |-> trace[Len(trace) - 1].arg]

(* -------------------------------- C8 ----------------------------------- *)

\* the number of inbound Message frames accepted so far
AcceptedMessageCount ==
    Cardinality({i \in 1..Len(trace) : Delivered(i) /\ GoodMessage(trace[i].arg)})

\* C8: a submit never changes history or roster, whether or not the channel
\* took its frame, and the length of history is the number of inbound Message
\* frames accepted so far.
C8_NoOptimisticSend ==
    /\ [](Len(messages) = AcceptedMessageCount)
    /\ [][SubmitStep => (messages' = messages /\ users' = users)]_vars

\* a submit taken by the channel, one refused by it, and history still empty
C8_Witness ==
    /\ \E i \in 1..Len(trace) : IsOkSubmit(trace[i])
    /\ \E i \in 1..Len(trace) : trace[i].kind = "SubmitMessage" /\ ~trace[i].ok
    /\ messages = <<>>
    /\ ~panicked

(* -------------------------------- C9 ----------------------------------- *)

FailedSendStep ==
    /\ SubmitStep
    /\ trace'[Len(trace')].sent # None
    /\ ~trace'[Len(trace')].ok

\* C11: a submit whose try_send fails takes the error branch and nothing
\* else: the controller is still running, roster and history are what they
\* were, and no frame was added outbound.
C11_SendFailureNoLocalEffect ==
    [][FailedSendStep =>
          /\ ~panicked'
          /\ users' = users
          /\ messages' = messages
          /\ Outbound' = Outbound]_vars

\* a refused submit in a session that holds a roster, still running
C11_Witness ==
    /\ trace # <<>>
    /\ Last.kind = "SubmitMessage" /\ Last.sent # None /\ ~Last.ok
    /\ users # <<>>
    /\ ~panicked

(* -------------------------------- C12 ---------------------------------- *)

\* an envelope whose payload members have the JSON types of the struct
PayloadTyped(s) ==
    /\ TextMember(s, "dataArray")[1] \in {"null", "arr"}
    /\ TextMember(s, "data")[1] \in {"null", "str"}

\* the step just taken handled an inbound "register" frame
RegisterStep ==
    /\ HandleMsgStep
    /\ HasTag(trace'[Len(trace')].arg, "register")
    /\ PayloadTyped(trace'[Len(trace')].arg)

\* C12: an inbound "register" frame is ignored: roster, history, the outbound
\* frames and whether the session has seen a roster are unchanged, update
\* returns false (no re-render), and the controller is still running.
C12_InboundRegisterIgnored ==
    [][RegisterStep =>
          /\ users' = users
          /\ messages' = messages
          /\ Outbound' = Outbound
          /\ UsersSeen' = UsersSeen
          /\ rerender' = FALSE
          /\ ~panicked']_vars

\* a "register" frame handled after a re-render was requested, and a Users
\* frame applied after it
C12_Witness ==
    /\ Len(trace) = 3
    /\ Delivered(1) /\ GoodMessage(trace[1].arg)
    /\ Delivered(2) /\ HasTag(trace[2].arg, "register")
    /\ Delivered(3) /\ UsersFrame(trace[3].arg)
    /\ Len(messages) = 1
    /\ RosterNames = NamesOf(trace[3].arg) /\ RosterNames # <<>>

(* -------------------------------- C13 ---------------------------------- *)

\* a "users" frame that carries a name array
SnapshotFrame(s) == UsersFrame(s) /\ TextMember(s, "dataArray")[1] = "arr"

RECURSIVE LastSnapshotNames(_)
\* the names of the latest Users frame of a trace that carries a name array
LastSnapshotNames(t) ==
    IF t = <<>> THEN <<>>
    ELSE LET e == t[Len(t)] IN
         IF e.kind = "HandleMsg" /\ SnapshotFrame(e.arg)
         THEN NamesOf(e.arg)
         ELSE LastSnapshotNames(SubSeq(t, 1, Len(t) - 1))

\* C13: a "users" frame whose dataArray is null is rejected and leaves the
\* roster unchanged, so the roster always holds the names of the latest Users
\* frame that carried a name array.
C13_TagPayloadMismatchRejected == RosterNames = LastSnapshotNames(trace)

(* -------------------------------- C14 ---------------------------------- *)

RECURSIVE LatestUsersNames(_)
\* the names of the latest Users frame of a trace
LatestUsersNames(t) ==
    IF t = <<>> THEN <<>>
    ELSE LET e == t[Len(t)] IN
         IF e.kind = "HandleMsg" /\ UsersFrame(e.arg)
         THEN NamesOf(e.arg)
         ELSE LatestUsersNames(SubSeq(t, 1, Len(t) - 1))

\* C14 as stated: no two roster entries have the same name.
C14_RosterNamesUnique ==
    \A i, j \in 1..Len(users) : i # j => users[i].name # users[j].name

\* C14 amended: the roster repeats a name exactly where the latest Users frame
\* repeats it: entry for entry, two roster entries have the same name iff the
\* frame lists the same name at these two places; nothing is de-duplicated.
C14_RosterMirrorsFrameDuplicates ==
    LET names == LatestUsersNames(trace) IN
    /\ Len(users) = Len(names)
    /\ \A i, j \in 1..Len(users) :
         (users[i].name = users[j].name) <=> (names[i] = names[j])

\* a roster that holds a name twice, after a frame that lists it twice
C14_Witness ==
    /\ trace # <<>> /\ Delivered(Len(trace)) /\ UsersFrame(Last.arg)
    /\ Len(users) = 2
    /\ users[1].name = users[2].name

(* -------------------------------- C15 ---------------------------------- *)

InRoster(name) == \E i \in 1..Len(users) : users[i].name = name

\* C15: for every message in history the profile resolution yields a profile
\* of the sender's name: a roster entry of that name when the roster has one,
\* otherwise the derived profile {name: sender, avatar: avatarUrl(sender)}.
C15_FallbackProfile ==
    \A k \in 1..Len(messages) :
        LET m == messages[k]
            p == ViewUser(m)
        IN /\ p.name = m.from
           /\ InRoster(m.from) => \E i \in 1..Len(users) : users[i] = p
           /\ ~InRoster(m.from) =>
                p = [name |-> m.from,
                     avatar |-> <<"https://avatars.dicebear.com/api/adventurer-neutral/",
                                  m.from, ".svg">>]

\* a message whose sender was removed by a later Users frame, next to a
\* non-empty roster
C15_Witness ==
    /\ Len(trace) >= 3
    /\ \E k \in 1..Len(messages) :
          /\ ~InRoster(messages[k].from)
          /\ \E i \in 1..(Len(trace) - 1) :
                /\ Delivered(i) /\ UsersFrame(trace[i].arg)
                /\ \E n \in 1..Len(NamesOf(trace[i].arg)) :
                      NamesOf(trace[i].arg)[n] = messages[k].from
    /\ users # <<>>

(* -------------------------------- C17 ---------------------------------- *)

\* the fixed lowercase token of each tag
LowercaseToken(mt) ==
    CASE mt = "Users" -> "users"
      [] mt = "Register" -> "register"
      [] mt = "Message" -> "message"

\* C17: the encoding of a frame is a JSON object with exactly the members
\* messageType, dataArray and data, its messageType the lowercase token of the
\* tag, and decoding it succeeds and gives the frame back.
C17_CodecRoundTrip ==
    /\ codec.text # None =>
          /\ IsObj(codec.text[1])
          /\ DOMAIN codec.text[1][2] = {"messageType", "dataArray", "data"}
          /\ codec.text[1][2]["messageType"] =
                 JStr(Raw(LowercaseToken(codec.frame[1].message_type)))
    /\ codec.back # None => codec.back[1] = <<"Ok", codec.frame[1]>>

\* a Users frame with an empty list and no data, encoded and decoded
C17_Witness ==
    /\ codec.back # None
    /\ codec.frame[1].message_type = "Users"
    /\ codec.frame[1].data_array = Some(<<>>)
    /\ codec.frame[1].data = None
    /\ codec.text[1][2]["dataArray"] = JArr(<<>>)

(* -------------------------------- C18 ---------------------------------- *)

\* C18: every roster entry has avatar = prefix + name + ".svg", and the
\* profile the view resolves for the sender of any message in history has
\* avatar = prefix + sender + ".svg", whether or not the sender is in the
\* roster.
C18_AvatarInvariant ==
    /\ \A i \in 1..Len(users) :
          users[i].avatar =
              <<"https://avatars.dicebear.com/api/adventurer-neutral/",
                users[i].name, ".svg">>
    /\ \A k \in 1..Len(messages) :
          ViewUser(messages[k]).avatar =
              <<"https://avatars.dicebear.com/api/adventurer-neutral/",
                messages[k].from, ".svg">>

\* one message whose sender is in the roster and one whose sender is not
C18_Witness ==
    /\ users # <<>>
    /\ \E k \in 1..Len(messages) : InRoster(messages[k].from)
    /\ \E k \in 1..Len(messages) : ~InRoster(messages[k].from)

(* -------------------------------- C19 ---------------------------------- *)

\* C19: the value update returned last is true exactly when the event it
\* handled was an accepted Users or Message frame; it is false after an
\* inbound Register frame and after every submit.
C19_ChangeNotification ==
    (trace # <<>> /\ ~panicked) =>
        (rerender <=> (/\ Delivered(Len(trace))
                       /\ \/ UsersFrame(Last.arg)
                          \/ GoodMessage(Last.arg)))

\* a submit right after an accepted Message frame: true, then false
C19_Witness ==
    /\ Len(trace) >= 2
    /\ Delivered(Len(trace) - 1) /\ GoodMessage(trace[Len(trace) - 1].arg)
    /\ Last.kind = "SubmitMessage"
    /\ ~rerender
    /\ messages # <<>>

(* -------------------------------- C20 ---------------------------------- *)

\* C20: an accepted Users frame leaves history and the outbound frames
\* unchanged; an accepted Message frame appends exactly one entry to history
\* and leaves the roster and the outbound frames unchanged.
C20_HandlerFrameConditions ==
    /\ [][(HandleMsgStep /\ UsersFrame(trace'[Len(trace')].arg)
                         /\ PayloadTyped(trace'[Len(trace')].arg)) =>
            /\ messages' = messages
            /\ Outbound' = Outbound
            /\ tx' = tx]_vars
    /\ [][(HandleMsgStep /\ GoodMessage(trace'[Len(trace')].arg)) =>
            /\ Len(messages') = Len(messages) + 1
            /\ SubSeq(messages', 1, Len(messages)) = messages
            /\ messages'[Len(messages')] = ChatMessageOf(trace'[Len(trace')].arg)
            /\ users' = users
            /\ Outbound' = Outbound
            /\ tx' = tx]_vars

\* a Users frame handled over a non-empty history, then a Message frame
\* handled over a non-empty roster
C20_Witness ==
    /\ Len(trace) = 3
    /\ Delivered(1) /\ GoodMessage(trace[1].arg)
    /\ Delivered(2) /\ UsersFrame(trace[2].arg)
    /\ Delivered(3) /\ GoodMessage(trace[3].arg) /\ trace[3].arg # trace[1].arg
    /\ Len(messages) = 2 /\ users # <<>>

====
